---- MODULE Spec2Model ----
(***************************************************************************)
(* Document summarizer front end: the document store (documentStore.ts),   *)
(* the upload pipeline of DocumentUpload (onDrop), the delete handler of   *)
(* DocumentCard (handleDelete), the loads of HomePage and DocumentViewer   *)
(* and the displayed list of HomePage, as state machines.                  *)
(*                                                                         *)
(* Specifications:                                                         *)
(*   Spec       the upload pipeline: drops, progress callbacks, upload     *)
(*              outcomes, the 1 s / 3 s timers and the passage of time     *)
(*   StoreSpec  the store's actions applied in any order with any input    *)
(*   CardSpec   the document list with its cards and handleDelete          *)
(*   LoadSpec   loadDocuments and loadDocument, overlapping in any order    *)
(*   ListSpec   the filter, the search query and the sort of the list      *)
(*   FlagSpec   the store's setters                                         *)
(*   SyncSpec   uploads and list loads against the same backend            *)
(*   ViewerSpec the page controls of the viewer                            *)
(***************************************************************************)
EXTENDS Integers, Sequences, FiniteSets, TLC

VARIABLES
    documents,        \* store: Document[]
    currentDocument,  \* store: Document | null
    currentSummary,   \* store: Summary | null
    processingStatus, \* store: ProcessingStatus | null
    isLoading,        \* store: boolean
    error,            \* store: string | null
    uploads,          \* DocumentUpload: useState<UploadProgress[]>
    procs,            \* one entry per running onDrop call: its newUploads (files)
    calls,            \* uploadDocument calls that have not settled yet
    timers,           \* pending setTimeout callbacks of onDrop
    toasts,           \* notices shown so far (kind and file)
    serverNext,       \* next identifier the backend assigns to an upload
    server,           \* the documents the backend has stored, newest first,
                      \* each with the upload it came from
    isDeleting,       \* DocumentCard: ids of the mounted cards whose isDeleting is true
    deleteCalls,      \* deleteDocument calls that have not settled yet, and
                      \* whether the card that issued each is still mounted
    sortBy,           \* HomePage: useState<SortBy>
    filterBy,         \* HomePage: useState<FilterBy>
    searchQuery,      \* HomePage: useState('') as a sequence of characters
    requests,         \* getDocuments / getDocument / getSummary calls that have
                      \* not settled yet, each with the load that issued it
    issued,           \* number of loadDocuments / loadDocument calls so far
    viewed,           \* history: the id loadDocument was last called with, and
                      \* whether a getDocument call has failed
    numPages,         \* DocumentViewer: useState<number>(0)
    pageNumber,       \* DocumentViewer: useState<number>(1)
    settled,          \* history: uploads (drop, index) whose call has settled
    reached,          \* history: entries that have shown processing or error
    age,              \* history: seconds since a listed entry's own call resolved
    op                \* history: the last operation and its key argument

storeVars == <<documents, currentDocument, currentSummary, processingStatus,
               isLoading, error>>
uploadVars == <<uploads, procs, calls, timers, toasts, serverNext, server>>
cardVars == <<isDeleting, deleteCalls>>
viewerVars == <<numPages, pageNumber>>
pageVars == <<sortBy, filterBy, searchQuery, viewerVars>>
loadVars == <<requests, issued, viewed>>
histVars == <<settled, reached, age>>
vars == <<storeVars, uploadVars, cardVars, pageVars, loadVars, histVars, op>>

----------------------------------------------------------------------------
(* Bounds of the model *)

MaxUploads == 2    \* upload entries created over a run
MaxBatch == 2      \* files in one drop
MaxAge == 5        \* the history clock of an upload stops here
MaxDocs == 2       \* length of the store's collection in StoreSpec / CardSpec
MaxLoads == 3      \* loadDocuments / loadDocument calls over a run
MaxList == 3       \* length of the list response in ListSpec
MaxPages == 3      \* pages of the longest PDF in ViewerSpec

(* Program constants *)

MaxFileSize == 52428800    \* 50 * 1024 * 1024
CompleteDelay == 1         \* setTimeout(..., 1000), in seconds
RemoveDelay == 3           \* setTimeout(..., 3000), in seconds

----------------------------------------------------------------------------
(* Values *)

Statuses == {"uploading", "processing", "completed", "error"}

\* null of Document | null, Summary | null, string | null
NullDocument == [id |-> 0, originalName |-> "", status |-> "null"]
NullSummary == [id |-> 0, documentId |-> 0]
NullString == "null"
NullStatus == [documentId |-> 0, stage |-> "null"]

\* op before any store or card operation has run
NoOp == [name |-> "init", id |-> 0, hitDocument |-> FALSE, hitSummary |-> FALSE]

\* Documents and summaries the store's actions are called with.
DocIds == {1, 2}
Names == {"a.pdf"}
Documents == [id : DocIds, originalName : Names, status : Statuses]
Summaries == { [id |-> d, documentId |-> d] : d \in DocIds }

\* Partial<Document> values updateDocument is called with: a status ...
Updates == { [status |-> st] : st \in Statuses }

\* ... or another field, which leaves the status as it is.
Renames == { [originalName |-> n] : n \in Names }

\* File objects the user can drop. ref is the object's identity (=== compares it).
Files ==
    { [ref |-> 1, name |-> "a.pdf", type |-> "application/pdf", ext |-> ".pdf", size |-> 1024],
      [ref |-> 2, name |-> "b.pdf", type |-> "application/pdf", ext |-> ".pdf", size |-> MaxFileSize],
      [ref |-> 3, name |-> "c.pdf", type |-> "application/pdf", ext |-> ".pdf", size |-> MaxFileSize + 1],
      [ref |-> 4, name |-> "d.txt", type |-> "text/plain", ext |-> ".txt", size |-> 1024] }

RECURSIVE SeqsOver(_, _)
\* The sequences of distinct elements of S of length at most n.
SeqsOver(S, n) ==
    IF n = 0 THEN {<<>>}
    ELSE LET shorter == SeqsOver(S, n - 1)
         IN shorter \cup { Append(s, x) : s \in { t \in shorter : Len(t) = n - 1 },
                                          x \in S }

Range(s) == { s[k] : k \in 1..Len(s) }

DistinctSeqs(S, n) == { s \in SeqsOver(S, n) : Cardinality(Range(s)) = Len(s) }

\* What one drop event can carry.
DropInputs == { s \in DistinctSeqs(Files, MaxBatch) : Len(s) > 0 }

----------------------------------------------------------------------------
(* Document store (documentStore.ts) *)

\* An addDocument that puts the document in twice.
addTwice(docs, document) == <<document, document>> \o docs

\* An addDocument that puts the document at the end.
appendDocument(docs, document) == docs \o <<document>>

\* addDocument: documents: [document, ...state.documents]
addDocument(docs, document) == <<document>> \o docs

\* { ...doc, ...updates }
merge(doc, updates) ==
    [f \in DOMAIN doc |-> IF f \in DOMAIN updates THEN updates[f] ELSE doc[f]]

\* An update that merges into every document, whatever its identifier.
updateAll(docs, id, updates) ==
    [k \in 1..Len(docs) |-> merge(docs[k], updates)]

\* updateDocument, the documents field
updateDocuments(docs, id, updates) ==
    [k \in 1..Len(docs) |-> IF docs[k].id = id THEN merge(docs[k], updates) ELSE docs[k]]

\* An update that leaves the current document as it was.
keepCurrent(cur, id, updates) == cur

\* updateDocument, the currentDocument field
updateCurrent(cur, id, updates) ==
    IF cur # NullDocument /\ cur.id = id THEN merge(cur, updates) ELSE cur

\* removeDocument, the documents field
removeDocuments(docs, id) == SelectSeq(docs, LAMBDA doc : doc.id # id)

\* removeDocument, the currentDocument field
removeCurrentDocument(cur, id) ==
    IF cur # NullDocument /\ cur.id = id THEN NullDocument ELSE cur

\* A removal that leaves the current summary as it was.
keepCurrentSummary(sum, id) == sum

\* removeDocument, the currentSummary field
removeCurrentSummary(sum, id) ==
    IF sum # NullSummary /\ sum.documentId = id THEN NullSummary ELSE sum

----------------------------------------------------------------------------
(* Upload pipeline (DocumentUpload.tsx, onDrop) *)

\* useDropzone({accept: {'application/pdf': ['.pdf']}, maxSize: 50 MiB}): the
\* files the dropzone hands to onDrop as acceptedFiles; the others go to
\* fileRejections, which the component does not read.
fileAccepted(f) ==
    /\ (f.type = "application/pdf" \/ f.ext = ".pdf")
    /\ f.size <= MaxFileSize

\* isValidPDF of lib/utils: the MIME type or the extension indicates a PDF.
isValidPDF(f) == f.type = "application/pdf" \/ f.ext = ".pdf"

\* The callback of acceptedFiles.filter.
validFile(f) == isValidPDF(f) /\ ~(f.size > MaxFileSize)

\* The toast the filter callback raises for a file, if any.
filterToasts(f) ==
    IF ~isValidPDF(f) THEN {[kind |-> "notValid", ref |-> f.ref]}
    ELSE IF f.size > MaxFileSize THEN {[kind |-> "tooLarge", ref |-> f.ref]}
    ELSE {}

\* One element of newUploads; eid is the entry's identity in the model.
newUpload(f, eid) ==
    [eid |-> eid, file |-> f, progress |-> 0, status |-> "uploading", error |-> NullString]

\* prev.map(u => u.file === file ? {...u, ...fields} : u)
mapFile(us, f, fields) ==
    [k \in 1..Len(us) |-> IF us[k].file.ref = f.ref THEN merge(us[k], fields) ELSE us[k]]

\* prev.filter(u => u.file !== file)
dropFile(us, f) == SelectSeq(us, LAMBDA u : u.file.ref # f.ref)

\* error instanceof Error ? error.message : 'Upload failed'
errorMessage(e) == IF e.isError THEN e.message ELSE "Upload failed"

\* What uploadDocument can reject with.
Rejections == { [isError |-> TRUE, message |-> "Network Error"],
                [isError |-> FALSE, message |-> ""] }

\* Percentages the progress callback reports after the initial 0.
ProgressValues == {50, 100}

\* The status of the Document the backend returns for an upload.
BackendStatuses == {"processing"}

\* A loop that starts every remaining iteration without awaiting the one before.
AllFrom(d, files, i) == { [d |-> d, i |-> k, sent |-> 0] : k \in i..Len(files) }

\* for (const upload of newUploads) { await uploadDocument(...) }: the calls
\* issued when drop d's loop enters iteration i. The await holds iteration
\* i + 1 back until call i has settled.
issueFrom(d, files, i) ==
    IF i <= Len(files) THEN {[d |-> d, i |-> i, sent |-> 0]} ELSE {}

FileOf(c) == procs[c.d][c.i]
Eid(c) == <<c.d, c.i>>

RECURSIVE TotalLen(_)
\* The number of files of all onDrop calls so far.
TotalLen(ps) == IF ps = <<>> THEN 0 ELSE Len(Head(ps)) + TotalLen(Tail(ps))

Listed(us) == { us[k].eid : k \in 1..Len(us) }

\* The history clock runs for the entries that are in the list.
Restrict(a, us) == [e \in DOMAIN a \cap Listed(us) |-> a[e]]

Shown(us) == { us[k].eid : k \in { j \in 1..Len(us) : us[j].status \in {"processing", "error"} } }

UNCHANGED_store == UNCHANGED <<currentDocument, currentSummary, processingStatus, isLoading>>

\* The backend has stored the document of call c; its answer may still be
\* on its way.
Stored(c) == \E k \in 1..Len(server) : server[k].owner = Eid(c)
StoredDocument(c) ==
    server[CHOOSE k \in 1..Len(server) : server[k].owner = Eid(c)].document

\* returned: the client has received the document as the answer of its call.
Returned(srv, c) ==
    [k \in 1..Len(srv) |-> IF srv[k].owner = Eid(c)
                           THEN [srv[k] EXCEPT !.returned = TRUE] ELSE srv[k]]

\* onDrop up to its first await: the dropzone's filter, the component's
\* filter, setUploads and the first uploadDocument call.
Drop(fs) ==
    LET accepted == SelectSeq(fs, fileAccepted)
        validFiles == SelectSeq(accepted, validFile)
        d == Len(procs) + 1
        newUploads == [k \in 1..Len(validFiles) |-> newUpload(validFiles[k], <<d, k>>)]
    IN /\ toasts' = toasts \cup UNION { filterToasts(accepted[k]) : k \in 1..Len(accepted) }
       /\ IF Len(validFiles) = 0
          THEN UNCHANGED <<uploads, procs, calls>>
          ELSE /\ TotalLen(procs) + Len(validFiles) <= MaxUploads
               /\ uploads' = uploads \o newUploads
               /\ procs' = Append(procs, validFiles)
               /\ calls' = calls \cup issueFrom(d, validFiles, 1)
       /\ UNCHANGED <<storeVars, timers, serverNext, server, cardVars, pageVars, loadVars, histVars, op>>

\* The progress callback of an outstanding call.
Progress(c, p) ==
    /\ c \in calls
    /\ p >= c.sent
    /\ uploads' = mapFile(uploads, FileOf(c), [progress |-> p])
    /\ calls' = (calls \ {c}) \cup {[c EXCEPT !.sent = p]}
    /\ UNCHANGED <<storeVars, procs, timers, toasts, serverNext, server, cardVars, pageVars, loadVars, histVars, op>>

\* uploadDocument resolves: the rest of the try block, then the next iteration.
UploadResolve(c, st) ==
    /\ c \in calls
    /\ LET file == FileOf(c)
           document == IF Stored(c) THEN StoredDocument(c)
                       ELSE [id |-> serverNext, originalName |-> file.name, status |-> st]
       IN /\ uploads' = mapFile(uploads, file, [status |-> "processing", progress |-> 100])
          /\ documents' = addDocument(documents, document)
          /\ timers' = timers \cup
                 {[owner |-> Eid(c), file |-> file, kind |-> "complete", left |-> CompleteDelay]}
          /\ toasts' = toasts \cup {[kind |-> "success", ref |-> file.ref]}
          /\ server' = IF Stored(c) THEN Returned(server, c)
                       ELSE <<[owner |-> Eid(c), document |-> document,
                               returned |-> TRUE]>> \o server
    /\ serverNext' = IF Stored(c) THEN serverNext ELSE serverNext + 1
    /\ calls' = (calls \ {c}) \cup issueFrom(c.d, procs[c.d], c.i + 1)
    /\ settled' = settled \cup {Eid(c)}
    /\ reached' = reached \cup Shown(uploads')
    /\ age' = Restrict([e \in DOMAIN age \cup {Eid(c)} |-> IF e = Eid(c) THEN 0 ELSE age[e]],
                        uploads')
    /\ UNCHANGED <<error, procs, cardVars, pageVars, loadVars, op>>
    /\ UNCHANGED_store

\* uploadDocument rejects: the catch block, then the next iteration.
UploadReject(c, e) ==
    /\ c \in calls
    /\ LET file == FileOf(c)
       IN /\ uploads' = mapFile(uploads, file,
                                [status |-> "error", error |-> errorMessage(e)])
          /\ toasts' = toasts \cup {[kind |-> "failed", ref |-> file.ref]}
    /\ error' = errorMessage(e)
    /\ calls' = (calls \ {c}) \cup issueFrom(c.d, procs[c.d], c.i + 1)
    /\ settled' = settled \cup {Eid(c)}
    /\ reached' = reached \cup Shown(uploads')
    /\ UNCHANGED <<documents, procs, timers, serverNext, server, cardVars, pageVars, loadVars, age, op>>
    /\ UNCHANGED_store

\* The callback of setTimeout(..., 1000).
TimerComplete(t) ==
    /\ t \in timers /\ t.kind = "complete" /\ t.left = 0
    /\ uploads' = mapFile(uploads, t.file, [status |-> "completed"])
    /\ timers' = (timers \ {t}) \cup
           {[owner |-> t.owner, file |-> t.file, kind |-> "remove", left |-> RemoveDelay]}
    /\ UNCHANGED <<storeVars, procs, calls, toasts, serverNext, server, cardVars, pageVars, loadVars, histVars, op>>

\* The callback of setTimeout(..., 3000).
TimerRemove(t) ==
    /\ t \in timers /\ t.kind = "remove" /\ t.left = 0
    /\ uploads' = dropFile(uploads, t.file)
    /\ timers' = timers \ {t}
    /\ age' = Restrict(age, uploads')
    /\ UNCHANGED <<storeVars, procs, calls, toasts, serverNext, server, cardVars, pageVars, loadVars, settled, reached, op>>

\* One second passes. A timer that is due fires before time moves on.
Tick ==
    /\ \A t \in timers : t.left > 0
    /\ timers' = { [t EXCEPT !.left = t.left - 1] : t \in timers }
    /\ age' = [e \in DOMAIN age |-> IF age[e] < MaxAge THEN age[e] + 1 ELSE age[e]]
    /\ UNCHANGED <<storeVars, uploads, procs, calls, toasts, serverNext, server, cardVars, pageVars, loadVars,
                   settled, reached, op>>

Init ==
    /\ documents = <<>>
    /\ currentDocument = NullDocument
    /\ currentSummary = NullSummary
    /\ processingStatus = NullStatus
    /\ isLoading = FALSE
    /\ error = NullString
    /\ uploads = <<>>
    /\ procs = <<>>
    /\ calls = {}
    /\ timers = {}
    /\ toasts = {}
    /\ serverNext = 1
    /\ server = <<>>
    /\ isDeleting = {}
    /\ deleteCalls = {}
    /\ sortBy = "recent"
    /\ filterBy = "all"
    /\ searchQuery = <<>>
    /\ requests = {}
    /\ issued = 0
    /\ viewed = [id |-> 0, failed |-> FALSE]
    /\ numPages = 0
    /\ pageNumber = 1
    /\ settled = {}
    /\ reached = {}
    /\ age = <<>>
    /\ op = NoOp

Next ==
    \/ \E fs \in DropInputs : Drop(fs)
    \/ \E c \in calls, p \in ProgressValues : Progress(c, p)
    \/ \E c \in calls, st \in BackendStatuses : UploadResolve(c, st)
    \/ \E c \in calls, e \in Rejections : UploadReject(c, e)
    \/ \E t \in timers : TimerComplete(t)
    \/ \E t \in timers : TimerRemove(t)
    \/ Tick

Spec == Init /\ [][Next]_vars

----------------------------------------------------------------------------
(* Properties of the upload pipeline, checked under Spec *)

Issued == settled \cup { Eid(c) : c \in calls }

\* C1: within one drop the uploadDocument calls are issued in drop order, and
\* the call for a file is issued only after the calls for all the files before
\* it in the same drop have resolved or rejected.
C1_SequentialWithinDrop ==
    \A e \in Issued : \A j \in 1..(e[2] - 1) : <<e[1], j>> \in settled

\* A drop's second call is outstanding after its first has settled.
C1_Witness ==
    \E c \in calls : c.i = 2 /\ <<c.d, 1>> \in settled

\* C2: across any sequence of drops at most one uploadDocument call is
\* outstanding.
C2_AtMostOneOutstanding == Cardinality(calls) <= 1

\* A file the claim lets into the pipeline: a valid PDF of at most 50 MiB.
Eligible(f) == isValidPDF(f) /\ f.size <= 50 * 1024 * 1024

EntryFields(u) == [file |-> u.file, progress |-> u.progress, status |-> u.status]

\* C6: a drop appends exactly its eligible files, in drop order, as entries
\* with status uploading and progress 0; every other file of the drop gets a
\* rejection notice and reaches neither the list nor uploadDocument.
C6_DropFiltersAndNotifies ==
    [][\A fs \in DropInputs : Drop(fs) =>
          LET eligible == SelectSeq(fs, Eligible)
              added == SubSeq(uploads', Len(uploads) + 1, Len(uploads'))
          IN /\ Len(uploads') = Len(uploads) + Len(eligible)
             /\ SubSeq(uploads', 1, Len(uploads)) = uploads
             /\ \A k \in 1..Len(eligible) :
                    EntryFields(added[k]) =
                        [file |-> eligible[k], progress |-> 0, status |-> "uploading"]
             /\ \A k \in 1..Len(fs) : ~Eligible(fs[k]) =>
                    /\ \E t \in toasts' :
                           t.ref = fs[k].ref /\ t.kind \in {"notValid", "tooLarge"}
                    /\ \A c \in calls' : procs'[c.d][c.i].ref # fs[k].ref
      ]_vars

OwnAge(u) == age[u.eid]

\* C7: an entry whose upload succeeded is processing during the first second
\* after it entered processing, completed from then on, and removed 3 seconds
\* later: it is not removed before, nor listed after, 4 seconds.
C7_TimedCompletionAndRemoval ==
    /\ [](\A k \in 1..Len(uploads) : uploads[k].eid \in DOMAIN age =>
            /\ OwnAge(uploads[k]) < CompleteDelay => uploads[k].status = "processing"
            /\ OwnAge(uploads[k]) > CompleteDelay => uploads[k].status = "completed"
            /\ OwnAge(uploads[k]) <= CompleteDelay + RemoveDelay)
    /\ [][\A e \in DOMAIN age :
            e \notin Listed(uploads') => age[e] = CompleteDelay + RemoveDelay]_vars

\* C8: an entry whose status is error is never removed from the list.
C8_ErrorEntryStays ==
    [][\A k \in 1..Len(uploads) :
          uploads[k].status = "error" => uploads[k].eid \in Listed(uploads')]_vars

LoopIdle(d) == \A c \in calls : c.d # d
AllSettled(d) == \A i \in 1..Len(procs[d]) : <<d, i>> \in settled

\* C9: the loop of a drop stops only when the call of every file of the batch
\* has been issued and has settled, whichever of them failed, and by then
\* every entry of the batch has shown processing or error.
C9_EveryFileHandled ==
    \A d \in 1..Len(procs) :
        /\ LoopIdle(d) => AllSettled(d)
        /\ AllSettled(d) => \A i \in 1..Len(procs[d]) : <<d, i>> \in reached

\* The status changes the claim allows for an entry.
StatusPath == { <<"uploading", "processing">>, <<"processing", "completed">>,
                <<"processing", "error">> }

\* C11: the status of an upload entry changes only along uploading ->
\* processing -> completed or uploading -> processing -> error: completed and
\* error are reached only from processing and are never left.
C11_EntryStatusPath ==
    [][\A k \in 1..Len(uploads), j \in 1..Len(uploads') :
          (uploads[k].eid = uploads'[j].eid /\ uploads[k].status # uploads'[j].status) =>
              <<uploads[k].status, uploads'[j].status>> \in StatusPath]_vars

----------------------------------------------------------------------------
(* The store's actions as steps (StoreSpec), with any input *)

Ids(docs) == { docs[k].id : k \in 1..Len(docs) }

UniqueIds(docs) == Cardinality(Ids(docs)) = Len(docs)

\* Lists a bulk fetch returns: no identifier twice.
ListResponses == { l \in SeqsOver(Documents, MaxDocs) : UniqueIds(l) }

References(cur, id) == cur # NullDocument /\ cur.id = id
Owns(sum, id) == sum # NullSummary /\ sum.documentId = id

StoreOp(name, id) ==
    [name |-> name, id |-> id,
     hitDocument |-> References(currentDocument, id),
     hitSummary |-> Owns(currentSummary, id)]

OnlyStore == UNCHANGED <<uploadVars, cardVars, pageVars, loadVars, histVars>>

\* setDocuments: (documents) => set({ documents })
SetDocuments(list) ==
    /\ documents' = list
    /\ op' = StoreOp("setDocuments", 0)
    /\ UNCHANGED <<currentDocument, currentSummary, processingStatus, isLoading, error>>
    /\ OnlyStore

AddDocument(document) ==
    /\ Len(documents) < MaxDocs
    /\ documents' = addDocument(documents, document)
    /\ op' = StoreOp("addDocument", document.id)
    /\ UNCHANGED <<currentDocument, currentSummary, processingStatus, isLoading, error>>
    /\ OnlyStore

UpdateDocument(id, updates) ==
    /\ documents' = updateDocuments(documents, id, updates)
    /\ currentDocument' = updateCurrent(currentDocument, id, updates)
    /\ op' = StoreOp("updateDocument", id)
    /\ UNCHANGED <<currentSummary, processingStatus, isLoading, error>>
    /\ OnlyStore

RemoveDocument(id) ==
    /\ documents' = removeDocuments(documents, id)
    /\ currentDocument' = removeCurrentDocument(currentDocument, id)
    /\ currentSummary' = removeCurrentSummary(currentSummary, id)
    /\ op' = StoreOp("removeDocument", id)
    /\ UNCHANGED <<processingStatus, isLoading, error>>
    /\ OnlyStore

\* setCurrentDocument: (document) => set({ currentDocument: document })
SetCurrentDocument(document) ==
    /\ currentDocument' = document
    /\ op' = StoreOp("setCurrentDocument", document.id)
    /\ UNCHANGED <<documents, currentSummary, processingStatus, isLoading, error>>
    /\ OnlyStore

\* setCurrentSummary: (summary) => set({ currentSummary: summary })
SetCurrentSummary(summary) ==
    /\ currentSummary' = summary
    /\ op' = StoreOp("setCurrentSummary", summary.documentId)
    /\ UNCHANGED <<documents, currentDocument, processingStatus, isLoading, error>>
    /\ OnlyStore

StoreNext ==
    \/ \E list \in ListResponses : SetDocuments(list)
    \/ \E document \in Documents : AddDocument(document)
    \/ \E id \in DocIds, updates \in Updates \cup Renames : UpdateDocument(id, updates)
    \/ \E id \in DocIds : RemoveDocument(id)
    \/ \E document \in Documents \cup {NullDocument} : SetCurrentDocument(document)
    \/ \E summary \in Summaries \cup {NullSummary} : SetCurrentSummary(summary)

StoreSpec == Init /\ [][StoreNext]_vars

----------------------------------------------------------------------------
(* Properties of the store, checked under StoreSpec *)

Rank(st) == CASE st = "uploading" -> 0
              [] st = "processing" -> 1
              [] OTHER -> 2

RECURSIVE MaxRank(_, _)
\* The furthest status the collection shows for an identifier (-1: none).
MaxRank(docs, id) ==
    IF docs = <<>> THEN -1
    ELSE LET rest == MaxRank(Tail(docs), id)
             here == IF Head(docs).id = id THEN Rank(Head(docs).status) ELSE -1
         IN IF here > rest THEN here ELSE rest

\* C3: the status of a document of the store never moves backward in the
\* order uploading, processing, completed | error.
C3_StatusNeverBackward ==
    [][\A id \in Ids(documents) \cap Ids(documents') :
          MaxRank(documents', id) >= MaxRank(documents, id)]_vars

\* C4: removeDocument(id) removes every document with that id and leaves the
\* others in place; it sets currentDocument to null exactly when it referenced
\* id and currentSummary to null exactly when its documentId was id, and
\* leaves them unchanged otherwise.
C4_RemoveDocumentEffect ==
    [][op'.name = "removeDocument" => \A id \in {op'.id} :
          /\ id \notin Ids(documents')
          /\ documents' = SelectSeq(documents, LAMBDA doc : doc.id # id)
          /\ currentDocument' =
                 IF References(currentDocument, id) THEN NullDocument ELSE currentDocument
          /\ currentSummary' =
                 IF Owns(currentSummary, id) THEN NullSummary ELSE currentSummary
      ]_vars

\* removeDocument has cleared the current summary and kept the current
\* document, which is another document's, and a document of the collection.
C4_Witness ==
    /\ op.name = "removeDocument"
    /\ op.hitSummary /\ ~op.hitDocument
    /\ currentSummary = NullSummary
    /\ currentDocument # NullDocument
    /\ Len(documents) > 0

\* C5: updateDocument(id, {status: s}) on a store whose currentDocument has
\* identifier id leaves currentDocument.status = s, and every entry of the
\* collection with that identifier has status s too.
C5_UpdateReachesCurrent ==
    [][op'.name = "updateDocument" => \A id \in {op'.id}, updates \in Updates :
          (UpdateDocument(id, updates) /\ References(currentDocument, id)) =>
              /\ currentDocument'.status = updates.status
              /\ currentDocument'.id = id
              /\ \A k \in 1..Len(documents') :
                     documents'[k].id = id => documents'[k].status = updates.status
      ]_vars

\* updateDocument has moved the current document and its entry to completed.
C5_Witness ==
    /\ op.name = "updateDocument"
    /\ op.hitDocument
    /\ currentDocument.status = "completed"
    /\ \E k \in 1..Len(documents) :
           documents[k].id = op.id /\ documents[k].status = "completed"

\* C14 as stated: updateDocument(id, updates) changes nothing of the store
\* when no document of the collection has identifier id.
C14_UpdateAbsentNoOp ==
    [][(op'.name = "updateDocument" /\ op'.id \notin Ids(documents)) =>
          storeVars' = storeVars]_vars

\* C14 as amended: when no document of the collection has identifier id,
\* updateDocument(id, updates) leaves documents, currentSummary and the flags
\* unchanged; currentDocument is unchanged unless its identifier is id, and
\* then it is the merge of the updates into it.
C14_UpdateAbsentAmended ==
    [][(op'.name = "updateDocument" /\ op'.id \notin Ids(documents)) =>
          \A id \in {op'.id}, updates \in Updates \cup Renames :
              UpdateDocument(id, updates) =>
                  /\ documents' = documents
                  /\ currentSummary' = currentSummary
                  /\ processingStatus' = processingStatus
                  /\ isLoading' = isLoading
                  /\ error' = error
                  /\ DOMAIN currentDocument' = DOMAIN currentDocument
                  /\ \A f \in DOMAIN currentDocument :
                         currentDocument'[f] =
                             IF References(currentDocument, id) /\ f \in DOMAIN updates
                             THEN updates[f]
                             ELSE currentDocument[f]
      ]_vars

\* updateDocument ran for an identifier that the collection, which is not
\* empty, does not hold and that the current document has: the current
\* document is completed now, the collection's document is not.
C14_Witness ==
    /\ op.name = "updateDocument"
    /\ op.id \notin Ids(documents)
    /\ op.hitDocument
    /\ currentDocument.status = "completed"
    /\ Len(documents) > 0 /\ documents[1].status = "uploading"

\* C15: after updateDocument(id, updates) on a store whose currentDocument has
\* identifier id and whose collection holds a document with that id,
\* currentDocument equals that collection entry in every field.
C15_CurrentEqualsMergedEntry ==
    [][op'.name = "updateDocument" => \A id \in {op'.id} :
          (References(currentDocument, id) /\ id \in Ids(documents)) =>
              \A k \in 1..Len(documents') :
                  documents'[k].id = id => currentDocument' = documents'[k]
      ]_vars

\* C16: addDocument(doc) yields the collection whose first element is doc and
\* whose other elements are the previous collection in the same order.
C16_AddDocumentPrepends ==
    [][op'.name = "addDocument" =>
          /\ Len(documents') = Len(documents) + 1
          /\ Head(documents').id = op'.id
          /\ Tail(documents') = documents
          /\ \A document \in Documents :
                 AddDocument(document) => Head(documents') = document
      ]_vars

\* A followed by B: addDocument has put B in front of A, a different document.
C16_Witness ==
    /\ op.name = "addDocument"
    /\ Len(documents) = 2
    /\ documents[1].id = op.id
    /\ documents[2].id # op.id

----------------------------------------------------------------------------
(* The document list and its cards (HomePage, DocumentCard): CardSpec *)

\* HomePage renders one DocumentCard per document, keyed by its id; a card
\* whose document leaves the collection unmounts and its state is gone.
Mounted(flags, docs) == flags \cap Ids(docs)
StillMounted(cs, docs) == { [c EXCEPT !.live = c.live /\ c.id \in Ids(docs)] : c \in cs }

\* A handler that removes the local entry whatever deleteDocument answered.
removeAnyway(state, id, resolved) ==
    [documents |-> removeDocuments(state.documents, id),
     currentDocument |-> removeCurrentDocument(state.currentDocument, id),
     currentSummary |-> removeCurrentSummary(state.currentSummary, id)]

\* handleDelete after the await: try { await deleteDocument(id);
\* removeDocument(id) } catch { toast.error(...) }, as the store it leaves.
afterDelete(state, id, resolved) ==
    IF resolved
    THEN [documents |-> removeDocuments(state.documents, id),
          currentDocument |-> removeCurrentDocument(state.currentDocument, id),
          currentSummary |-> removeCurrentSummary(state.currentSummary, id)]
    ELSE state

StoreState ==
    [documents |-> documents, currentDocument |-> currentDocument,
     currentSummary |-> currentSummary]

\* loadDocuments succeeds: setDocuments(response.items).
LoadList(list) ==
    /\ documents' = list
    /\ isDeleting' = Mounted(isDeleting, list)
    /\ deleteCalls' = StillMounted(deleteCalls, list)
    /\ op' = StoreOp("setDocuments", 0)
    /\ UNCHANGED <<currentDocument, currentSummary, processingStatus, isLoading, error>>
    /\ UNCHANGED <<uploadVars, pageVars, loadVars, histVars>>

\* The user opens a document of the list: the viewer sets it, and its summary
\* if it has one, as the current ones.
ViewDocument(k, summary) ==
    /\ k \in 1..Len(documents)
    /\ summary \in {NullSummary, [id |-> documents[k].id, documentId |-> documents[k].id]}
    /\ currentDocument' = documents[k]
    /\ currentSummary' = summary
    /\ op' = StoreOp("setCurrentDocument", documents[k].id)
    /\ UNCHANGED <<documents, processingStatus, isLoading, error>>
    /\ UNCHANGED <<uploadVars, cardVars, pageVars, loadVars, histVars>>

\* handleDelete up to its await: the button is enabled, the user confirms.
HandleDelete(id) ==
    /\ id \in Ids(documents)
    /\ id \notin isDeleting
    /\ isDeleting' = isDeleting \cup {id}
    /\ deleteCalls' = deleteCalls \cup {[id |-> id, live |-> TRUE]}
    /\ op' = StoreOp("handleDelete", id)
    /\ UNCHANGED <<storeVars, uploadVars, pageVars, loadVars, histVars>>

\* deleteDocument settles: the rest of try, or catch, then finally.
DeleteSettles(c, resolved) ==
    /\ c \in deleteCalls
    /\ LET after == afterDelete(StoreState, c.id, resolved)
       IN /\ documents' = after.documents
          /\ currentDocument' = after.currentDocument
          /\ currentSummary' = after.currentSummary
          /\ isDeleting' = Mounted(IF c.live THEN isDeleting \ {c.id} ELSE isDeleting,
                                   after.documents)
          /\ deleteCalls' = StillMounted(deleteCalls \ {c}, after.documents)
    /\ op' = StoreOp(IF resolved THEN "deleteResolved" ELSE "deleteRejected", c.id)
    /\ UNCHANGED <<processingStatus, isLoading, error>>
    /\ UNCHANGED <<uploadVars, pageVars, loadVars, histVars>>

DeleteResolve(c) == DeleteSettles(c, TRUE)
DeleteReject(c) == DeleteSettles(c, FALSE)

CardNext ==
    \/ \E list \in ListResponses : LoadList(list)
    \/ \E k \in 1..MaxDocs, summary \in Summaries \cup {NullSummary} : ViewDocument(k, summary)
    \/ \E id \in DocIds : HandleDelete(id)
    \/ \E c \in deleteCalls : DeleteResolve(c)
    \/ \E c \in deleteCalls : DeleteReject(c)

CardSpec == Init /\ [][CardNext]_vars

\* C10: handleDelete removes the document from the store only in the step in
\* which deleteDocument resolves; when deleteDocument rejects, documents,
\* currentDocument and currentSummary stay as they are; after either outcome
\* the deleting flag of the card that issued the call is false.
C10_DeleteOnlyOnSuccess ==
    [][/\ op'.name = "handleDelete" => StoreState' = StoreState
       /\ op'.name = "deleteRejected" =>
              \A c \in deleteCalls : (c.id = op'.id /\ DeleteReject(c)) =>
                  /\ StoreState' = StoreState
                  /\ c.live => c.id \notin isDeleting'
       /\ op'.name = "deleteResolved" =>
              /\ op'.id \notin Ids(documents')
              /\ op'.id \notin isDeleting'
      ]_vars

\* deleteDocument was rejected for the current document, whose summary is the
\* current one: the document is still listed and current, and its card's
\* flag is false again.
C10_Witness ==
    /\ op.name = "deleteRejected"
    /\ op.hitDocument /\ op.hitSummary
    /\ op.id \in Ids(documents)
    /\ References(currentDocument, op.id)
    /\ Owns(currentSummary, op.id)
    /\ op.id \notin isDeleting

----------------------------------------------------------------------------
(* Loading the list and a document (HomePage.loadDocuments,               *)
(* DocumentViewer.loadDocument): LoadSpec                                  *)

\* error instanceof Error ? error.message : fallback
failureMessage(e, fallback) == IF e.isError THEN e.message ELSE fallback

\* Lists getDocuments answers with, and documents getDocument(id) answers with.
LoadLists == { l \in ListResponses : \A k \in 1..Len(l) : l[k].status = "completed" }
Fetched(id) == { d \in Documents : d.id = id /\ d.status \in {"processing", "completed"} }

\* document.summary of a fetched document, when it has one; the answer of getSummary(id).
SummaryOf(id) == [id |-> id, documentId |-> id]

\* since: how many documents the backend held when the call was issued.
Request(n, kind, id, document) ==
    [n |-> n, kind |-> kind, id |-> id, document |-> document, since |-> Len(server)]

OnlyLoad == UNCHANGED <<processingStatus, uploadVars, cardVars, pageVars, histVars>>

\* loadDocuments up to its await.
LoadDocuments ==
    /\ issued < MaxLoads
    /\ issued' = issued + 1
    /\ isLoading' = TRUE
    /\ error' = NullString
    /\ requests' = requests \cup {Request(issued + 1, "getDocuments", 0, NullDocument)}
    /\ op' = StoreOp("loadDocuments", 0)
    /\ UNCHANGED <<documents, currentDocument, currentSummary, viewed>>
    /\ OnlyLoad

\* getDocuments resolves: setDocuments(response.items), then finally.
GetDocumentsResolve(r, list) ==
    /\ r \in requests /\ r.kind = "getDocuments"
    /\ documents' = list
    /\ isLoading' = FALSE
    /\ requests' = requests \ {r}
    /\ op' = StoreOp("getDocumentsResolved", 0)
    /\ UNCHANGED <<currentDocument, currentSummary, error, issued, viewed>>
    /\ OnlyLoad

\* getDocuments rejects: the catch block, then finally.
GetDocumentsReject(r, e) ==
    /\ r \in requests /\ r.kind = "getDocuments"
    /\ error' = failureMessage(e, "Failed to load documents")
    /\ isLoading' = FALSE
    /\ requests' = requests \ {r}
    /\ op' = StoreOp("getDocumentsRejected", 0)
    /\ UNCHANGED <<documents, currentDocument, currentSummary, issued, viewed>>
    /\ OnlyLoad

\* loadDocument(documentId) up to its first await.
LoadDocument(id) ==
    /\ issued < MaxLoads
    /\ issued' = issued + 1
    /\ isLoading' = TRUE
    /\ error' = NullString
    /\ requests' = requests \cup {Request(issued + 1, "getDocument", id, NullDocument)}
    /\ viewed' = [viewed EXCEPT !.id = id]
    /\ op' = StoreOp("loadDocument", id)
    /\ UNCHANGED <<documents, currentDocument, currentSummary>>
    /\ OnlyLoad

\* getDocument resolves: setCurrentDocument(document); with document.summary,
\* setCurrentSummary and finally; without, the call of getSummary.
GetDocumentResolve(r, document, hasSummary) ==
    /\ r \in requests /\ r.kind = "getDocument"
    /\ document \in Fetched(r.id)
    /\ currentDocument' = document
    /\ IF hasSummary
       THEN /\ currentSummary' = SummaryOf(r.id)
            /\ isLoading' = FALSE
            /\ requests' = requests \ {r}
       ELSE /\ requests' = (requests \ {r}) \cup {Request(r.n, "getSummary", r.id, document)}
            /\ UNCHANGED <<currentSummary, isLoading>>
    /\ op' = StoreOp("getDocumentResolved", r.id)
    /\ UNCHANGED <<documents, error, issued, viewed>>
    /\ OnlyLoad

\* getDocument rejects: the outer catch block, then finally.
GetDocumentReject(r, e) ==
    /\ r \in requests /\ r.kind = "getDocument"
    /\ error' = failureMessage(e, "Failed to load document")
    /\ isLoading' = FALSE
    /\ requests' = requests \ {r}
    /\ viewed' = [viewed EXCEPT !.failed = TRUE]
    /\ op' = StoreOp("getDocumentRejected", r.id)
    /\ UNCHANGED <<documents, currentDocument, currentSummary, issued>>
    /\ OnlyLoad

\* getSummary resolves: setCurrentSummary(summary), then finally.
GetSummaryResolve(r) ==
    /\ r \in requests /\ r.kind = "getSummary"
    /\ currentSummary' = SummaryOf(r.id)
    /\ isLoading' = FALSE
    /\ requests' = requests \ {r}
    /\ op' = StoreOp("getSummaryResolved", r.id)
    /\ UNCHANGED <<documents, currentDocument, error, issued, viewed>>
    /\ OnlyLoad

\* getSummary rejects: the inner catch block (a log line), then finally.
GetSummaryReject(r) ==
    /\ r \in requests /\ r.kind = "getSummary"
    /\ isLoading' = FALSE
    /\ requests' = requests \ {r}
    /\ op' = StoreOp("getSummaryRejected", r.id)
    /\ UNCHANGED <<documents, currentDocument, currentSummary, error, issued, viewed>>
    /\ OnlyLoad

LoadNext ==
    \/ LoadDocuments
    \/ \E r \in requests, list \in LoadLists : GetDocumentsResolve(r, list)
    \/ \E r \in requests, e \in Rejections : GetDocumentsReject(r, e)
    \/ \E id \in DocIds : LoadDocument(id)
    \/ \E r \in requests, document \in Documents, hasSummary \in BOOLEAN :
           GetDocumentResolve(r, document, hasSummary)
    \/ \E r \in requests, e \in Rejections : GetDocumentReject(r, e)
    \/ \E r \in requests : GetSummaryResolve(r)
    \/ \E r \in requests : GetSummaryReject(r)

LoadSpec == Init /\ [][LoadNext]_vars

\* HomePage renders the Try Again button: the documents section is rendered,
\* the store is not loading and its error is set.
RetryOffered == Len(documents) > 0 /\ ~isLoading /\ error # NullString

\* C13: the store's error becomes non-null, or changes, only in the step in
\* which a list load fails; no other failure touches it.
C13_ErrorOnlyFromListLoad ==
    [][(error' # error /\ error' # NullString) => op'.name = "getDocumentsRejected"]_vars

\* C19: when getDocument succeeded and getSummary fails, loadDocument finishes
\* with currentDocument the fetched document, error null and isLoading false.
C19_MissingSummaryIsNoError ==
    [][\A r \in requests : GetSummaryReject(r) =>
          /\ currentDocument' = r.document
          /\ error' = NullString
          /\ isLoading' = FALSE
      ]_vars

\* C20: when a list load has just failed and no load is in progress, the list
\* view offers the retry action, whatever the collection holds.
C20_RetryAfterListFailure ==
    (op.name = "getDocumentsRejected" /\ requests = {}) => RetryOffered

----------------------------------------------------------------------------
(* The displayed list (HomePage, filteredAndSortedDocuments): ListSpec *)

SortKeys == {"recent", "name", "size"}
Filters == {"all", "completed", "processing", "error"}

\* Strings the page inspects by character are sequences of characters.
SearchQueries == { <<>>, <<"a">>, <<"B">>, <<"a", "B">> }

\* Documents the list endpoint returns, with the fields the page reads.
PageDocuments ==
    { [id |-> 1, originalName |-> <<"b">>, status |-> "completed",
       uploadedAt |-> "2024-01-01", fileSize |-> 10],
      [id |-> 2, originalName |-> <<"a">>, status |-> "processing",
       uploadedAt |-> "2024-01-02", fileSize |-> 30],
      [id |-> 3, originalName |-> <<"A", "b">>, status |-> "completed",
       uploadedAt |-> "2024-01-02", fileSize |-> 20],
      [id |-> 4, originalName |-> <<"B">>, status |-> "error",
       uploadedAt |-> "2024-01-03", fileSize |-> 10],
      [id |-> 5, originalName |-> <<"a", "b">>, status |-> "uploading",
       uploadedAt |-> "2024-01-01", fileSize |-> 30] }

PageLists == DistinctSeqs(PageDocuments, MaxList)

\* String.prototype.toLowerCase
lowerChar(ch) == CASE ch = "A" -> "a" [] ch = "B" -> "b" [] OTHER -> ch
toLowerCase(str) == [k \in 1..Len(str) |-> lowerChar(str[k])]

\* String.prototype.includes
includes(str, q) ==
    \E k \in 0..(Len(str) - Len(q)) : SubSeq(str, k + 1, k + Len(q)) = q

\* A filter callback that compares the name and the query as they are.
keepsCaseSensitive(doc, filter, query) ==
    /\ ~(filter # "all" /\ doc.status # filter)
    /\ ~(query # <<>> /\ ~includes(doc.originalName, query))

\* The callback of documents.filter.
keeps(doc, filter, query) ==
    /\ ~(filter # "all" /\ doc.status # filter)
    /\ ~(query # <<>> /\ ~includes(toLowerCase(doc.originalName), toLowerCase(query)))

filtered(docs, filter, query) == SelectSeq(docs, LAMBDA doc : keeps(doc, filter, query))

\* new Date(uploadedAt).getTime(), in days since the epoch.
getTime(uploadedAt) ==
    CASE uploadedAt = "2024-01-01" -> 19723
      [] uploadedAt = "2024-01-02" -> 19724
      [] uploadedAt = "2024-01-03" -> 19725

RECURSIVE compareKeys(_, _)
\* The order of two sequences of collation weights: -1, 0 or 1.
compareKeys(x, y) ==
    IF x = <<>> THEN (IF y = <<>> THEN 0 ELSE -1)
    ELSE IF y = <<>> THEN 1
    ELSE IF Head(x) < Head(y) THEN -1
    ELSE IF Head(x) > Head(y) THEN 1
    ELSE compareKeys(Tail(x), Tail(y))

\* String.prototype.localeCompare: the letters decide, whatever their case;
\* between names of the same letters the lower-case one comes first.
primary(str) == [k \in 1..Len(str) |-> IF lowerChar(str[k]) = "a" THEN 1 ELSE 2]
tertiary(str) == [k \in 1..Len(str) |-> IF lowerChar(str[k]) = str[k] THEN 0 ELSE 1]
localeCompare(a, b) ==
    IF compareKeys(primary(a), primary(b)) # 0
    THEN compareKeys(primary(a), primary(b))
    ELSE compareKeys(tertiary(a), tertiary(b))

\* A comparator that puts the older document first.
compareOldestFirst(key, a, b) ==
    CASE key = "recent" -> getTime(a.uploadedAt) - getTime(b.uploadedAt)
      [] key = "name" -> localeCompare(a.originalName, b.originalName)
      [] key = "size" -> b.fileSize - a.fileSize
      [] OTHER -> 0

\* The callback of .sort.
compare(key, a, b) ==
    CASE key = "recent" -> getTime(b.uploadedAt) - getTime(a.uploadedAt)
      [] key = "name" -> localeCompare(a.originalName, b.originalName)
      [] key = "size" -> b.fileSize - a.fileSize
      [] OTHER -> 0

RECURSIVE insert(_, _, _)
\* doc put into a sorted list behind every element that does not follow it.
insert(sorted, doc, key) ==
    IF sorted = <<>> THEN <<doc>>
    ELSE IF compare(key, Head(sorted), doc) <= 0
         THEN <<Head(sorted)>> \o insert(Tail(sorted), doc, key)
         ELSE <<doc>> \o sorted

RECURSIVE sort(_, _)
\* Array.prototype.sort with the callback: a stable sort.
sort(docs, key) ==
    IF docs = <<>> THEN <<>>
    ELSE insert(sort(SubSeq(docs, 1, Len(docs) - 1), key), docs[Len(docs)], key)

filteredAndSortedDocuments == sort(filtered(documents, filterBy, searchQuery), sortBy)

OnlyPage == UNCHANGED <<storeVars, uploadVars, cardVars, loadVars, viewerVars, histVars, op>>

\* onChange of the sort select.
SetSortBy(key) ==
    /\ sortBy' = key
    /\ UNCHANGED <<filterBy, searchQuery>>
    /\ OnlyPage

\* onChange of the filter select.
SetFilterBy(filter) ==
    /\ filterBy' = filter
    /\ UNCHANGED <<sortBy, searchQuery>>
    /\ OnlyPage

\* onChange of the search input.
SetSearchQuery(query) ==
    /\ searchQuery' = query
    /\ UNCHANGED <<sortBy, filterBy>>
    /\ OnlyPage

ListNext ==
    \/ \E list \in PageLists : SetDocuments(list)
    \/ \E key \in SortKeys : SetSortBy(key)
    \/ \E filter \in Filters : SetFilterBy(filter)
    \/ \E query \in SearchQueries : SetSearchQuery(query)

ListSpec == Init /\ [][ListNext]_vars

----------------------------------------------------------------------------
(* Properties of the displayed list, checked under ListSpec *)

Count(s, x) == Cardinality({ k \in 1..Len(s) : s[k] = x })

IsPermutation(s, t) ==
    /\ Len(s) = Len(t)
    /\ \A x \in Range(s) \cup Range(t) : Count(s, x) = Count(t, x)

SameLetter(x, y) == (x \in {"a", "A"}) = (y \in {"a", "A"})

RECURSIVE Alphabetical(_, _)
\* a does not come after b in the dictionary, whatever the case of the letters.
Alphabetical(a, b) ==
    \/ a = <<>>
    \/ /\ b # <<>>
       /\ \/ Head(a) \in {"a", "A"} /\ Head(b) \in {"b", "B"}
          \/ SameLetter(Head(a), Head(b)) /\ Alphabetical(Tail(a), Tail(b))

InOrder(key, a, b) ==
    CASE key = "recent" -> getTime(a.uploadedAt) >= getTime(b.uploadedAt)
      [] key = "name" -> Alphabetical(a.originalName, b.originalName)
      [] key = "size" -> a.fileSize >= b.fileSize

\* C17: the displayed list is a permutation of the filtered documents, and
\* it is ordered by the chosen key: recent puts the later uploadedAt first,
\* name the originalName in ascending order, size the larger fileSize first.
C17_DisplayedListSorted ==
    /\ IsPermutation(filteredAndSortedDocuments,
                     filtered(documents, filterBy, searchQuery))
    /\ \A k \in 1..(Len(filteredAndSortedDocuments) - 1) :
           InOrder(sortBy, filteredAndSortedDocuments[k],
                           filteredAndSortedDocuments[k + 1])

\* Three documents are displayed by name, in another order than the store's.
C17_Witness ==
    /\ sortBy = "name"
    /\ Len(filteredAndSortedDocuments) = 3
    /\ filteredAndSortedDocuments # documents
    /\ filteredAndSortedDocuments[1].originalName = <<"a">>
    /\ filteredAndSortedDocuments[3].originalName = <<"B">>

ContainsIgnoringCase(name, query) ==
    \E k \in 0..(Len(name) - Len(query)) :
        \A j \in 1..Len(query) : SameLetter(name[k + j], query[j])

\* The documents of the store the claim says are displayed.
Matching(doc) ==
    /\ filterBy # "all" => doc.status = filterBy
    /\ searchQuery # <<>> => ContainsIgnoringCase(doc.originalName, searchQuery)

\* C18: the displayed documents are exactly the documents of the store whose
\* status equals the filter (every document for all) and, with a non-empty
\* search query, whose originalName contains it case-insensitively.
C18_DisplayedListFiltered ==
    /\ Range(filteredAndSortedDocuments) = { doc \in Range(documents) : Matching(doc) }
    /\ Len(filteredAndSortedDocuments) =
           Cardinality({ k \in 1..Len(documents) : Matching(documents[k]) })

\* Of three documents the one that is completed and whose name contains the
\* query, in another case, is displayed.
C18_Witness ==
    /\ filterBy = "completed"
    /\ searchQuery = <<"a", "B">>
    /\ Len(documents) = 3
    /\ Len(filteredAndSortedDocuments) = 1
    /\ filteredAndSortedDocuments[1].originalName = <<"A", "b">>
    /\ \E k \in 1..Len(documents) : documents[k].originalName = <<"a", "b">>

----------------------------------------------------------------------------
(* The store's setters (documentStore.ts): FlagSpec *)

\* ProcessingStatus values and messages the setters are called with.
ProcessingStatuses ==
    { [documentId |-> d, stage |-> st] : d \in {1}, st \in {"summarization", "completed"} }
ErrorMessages == {"Network Error", "Failed to load documents"}

\* setProcessingStatus: (status) => set({ processingStatus: status })
SetProcessingStatus(status) ==
    /\ processingStatus' = status
    /\ op' = StoreOp("setProcessingStatus", status.documentId)
    /\ UNCHANGED <<documents, currentDocument, currentSummary, isLoading, error>>
    /\ OnlyStore

\* setLoading: (loading) => set({ isLoading: loading })
SetLoading(loading) ==
    /\ isLoading' = loading
    /\ op' = StoreOp("setLoading", 0)
    /\ UNCHANGED <<documents, currentDocument, currentSummary, processingStatus, error>>
    /\ OnlyStore

\* A setError that also ends the loading state.
SetErrorAndStop(e) ==
    /\ error' = e
    /\ isLoading' = FALSE
    /\ op' = StoreOp("setError", 0)
    /\ UNCHANGED <<documents, currentDocument, currentSummary, processingStatus>>
    /\ OnlyStore

\* setError: (error) => set({ error })
SetError(e) ==
    /\ error' = e
    /\ op' = StoreOp("setError", 0)
    /\ UNCHANGED <<documents, currentDocument, currentSummary, processingStatus, isLoading>>
    /\ OnlyStore

\* clearError: () => set({ error: null })
ClearError ==
    /\ error' = NullString
    /\ op' = StoreOp("clearError", 0)
    /\ UNCHANGED <<documents, currentDocument, currentSummary, processingStatus, isLoading>>
    /\ OnlyStore

FlagNext ==
    \/ \E list \in LoadLists : SetDocuments(list)
    \/ \E document \in Documents \cup {NullDocument} : SetCurrentDocument(document)
    \/ \E summary \in Summaries \cup {NullSummary} : SetCurrentSummary(summary)
    \/ \E status \in ProcessingStatuses \cup {NullStatus} : SetProcessingStatus(status)
    \/ \E loading \in BOOLEAN : SetLoading(loading)
    \/ \E e \in ErrorMessages \cup {NullString} : SetError(e)
    \/ ClearError

FlagSpec == Init /\ [][FlagNext]_vars

\* C21: setLoading, setError and clearError change only isLoading resp.
\* error, and setCurrentDocument, setCurrentSummary and setProcessingStatus
\* replace only their own field, with the value they are called with.
C21_SettersChangeOwnField ==
    [][/\ op'.name = "setLoading" =>
              /\ <<documents, currentDocument, currentSummary, processingStatus, error>>'
                     = <<documents, currentDocument, currentSummary, processingStatus, error>>
              /\ \A loading \in BOOLEAN : SetLoading(loading) => isLoading' = loading
       /\ op'.name \in {"setError", "clearError"} =>
              /\ <<documents, currentDocument, currentSummary, processingStatus, isLoading>>'
                     = <<documents, currentDocument, currentSummary, processingStatus, isLoading>>
              /\ op'.name = "clearError" => error' = NullString
              /\ \A e \in ErrorMessages \cup {NullString} : SetError(e) => error' = e
       /\ op'.name = "setCurrentDocument" =>
              <<documents, currentSummary, processingStatus, isLoading, error>>'
                  = <<documents, currentSummary, processingStatus, isLoading, error>>
       /\ op'.name = "setCurrentSummary" =>
              <<documents, currentDocument, processingStatus, isLoading, error>>'
                  = <<documents, currentDocument, processingStatus, isLoading, error>>
       /\ op'.name = "setProcessingStatus" =>
              <<documents, currentDocument, currentSummary, isLoading, error>>'
                  = <<documents, currentDocument, currentSummary, isLoading, error>>
      ]_vars

\* setError has set the error of a store that is loading and whose other
\* fields are all set.
C21_Witness ==
    /\ op.name = "setError"
    /\ error = "Network Error"
    /\ isLoading
    /\ Len(documents) > 0
    /\ currentDocument # NullDocument
    /\ currentSummary # NullSummary
    /\ processingStatus # NullStatus

----------------------------------------------------------------------------
(* Uploads and list loads against the same backend: SyncSpec *)

\* The backend stores the file of an outstanding upload call and assigns its
\* identifier; the answer reaches the client in a later step, or is lost.
ServerStore(c, st) ==
    /\ c \in calls
    /\ ~Stored(c)
    /\ server' = <<[owner |-> Eid(c),
                    document |-> [id |-> serverNext, originalName |-> FileOf(c).name,
                                  status |-> st],
                    returned |-> FALSE]>> \o server
    /\ serverNext' = serverNext + 1
    /\ UNCHANGED <<storeVars, uploads, procs, calls, timers, toasts, cardVars, pageVars,
                   loadVars, histVars, op>>

\* The backend's documents when it held m of them, newest first.
ServerList(m) == [k \in 1..m |-> server[Len(server) - m + k].document]

\* What getDocuments can answer a call with: the backend's list at a moment
\* between the call and its answer.
Snapshots(r) == { ServerList(m) : m \in r.since..Len(server) }

SyncNext ==
    \/ \E fs \in DropInputs : Drop(fs)
    \/ \E c \in calls, st \in BackendStatuses : ServerStore(c, st)
    \/ \E c \in calls, st \in BackendStatuses : UploadResolve(c, st)
    \/ \E c \in calls, e \in Rejections : UploadReject(c, e)
    \/ LoadDocuments
    \/ \E r \in requests : \E list \in Snapshots(r) : GetDocumentsResolve(r, list)
    \/ \E r \in requests, e \in Rejections : GetDocumentsReject(r, e)

SyncSpec == Init /\ [][SyncNext]_vars

\* The identifiers of the documents the pipeline has added to the store.
AddedByUpload == { server[k].document.id : k \in { j \in 1..Len(server) : server[j].returned } }

\* C22: a document that a successful upload added to the store stays in the
\* collection as long as removeDocument is not called with its id, however
\* upload completions and list loads interleave.
C22_UploadedDocumentStays ==
    [][op'.name # "removeDocument" =>
          \A id \in AddedByUpload \cap Ids(documents) : id \in Ids(documents')]_vars

\* C23: no two entries of the store's collection share an identifier.
C23_UniqueIdentifiers == UniqueIds(documents)

----------------------------------------------------------------------------
(* Properties of overlapping loads, checked under LoadSpec *)

\* The step in which the loadDocument call of request r completes after its
\* getDocument has succeeded.
Completes(r) ==
    \/ GetSummaryResolve(r)
    \/ GetSummaryReject(r)
    \/ \E document \in Fetched(r.id) : GetDocumentResolve(r, document, TRUE)

\* C24: when loadDocument(id) completes successfully, currentSummary is null
\* or a summary of document id, whatever was current before the call.
C24_SummaryBelongsToDocument ==
    [][\A r \in requests : Completes(r) =>
          currentSummary' = NullSummary \/ currentSummary'.documentId = r.id]_vars

\* C25: once every loadDocument call has completed, none having failed,
\* currentDocument is the document of the id requested last.
C25_LastRequestWins ==
    (requests = {} /\ viewed.id # 0 /\ ~viewed.failed) =>
        currentDocument # NullDocument /\ currentDocument.id = viewed.id

\* C26: isLoading is true exactly while a list load or a document load is
\* outstanding.
C26_LoadingWhileOutstanding == isLoading = (requests # {})

----------------------------------------------------------------------------
(* Isolation of the upload entries, checked under Spec *)

\* Every entry but the one of upload e is in the list after the step as it
\* was before.
OthersKept(e) ==
    \A k \in 1..Len(uploads) : uploads[k].eid # e =>
        \E j \in 1..Len(uploads') : uploads'[j] = uploads[k]

\* C27: a progress update, a status change or a timed removal issued for one
\* upload changes only that upload's entry: every other entry, also one of
\* another drop with the same file, keeps its progress, status and presence.
C27_OnlyOwnEntryChanges ==
    [][/\ \A c \in calls :
              \/ \E p \in ProgressValues : Progress(c, p)
              \/ \E st \in BackendStatuses : UploadResolve(c, st)
              \/ \E e \in Rejections : UploadReject(c, e)
              => OthersKept(Eid(c))
       /\ \A t \in timers : (TimerComplete(t) \/ TimerRemove(t)) => OthersKept(t.owner)
      ]_vars

----------------------------------------------------------------------------
(* The page controls of the viewer (DocumentViewer): ViewerSpec *)

\* The number of pages of the PDF of a document, and the pages its
\* highlights are on.
PageCount(id) == IF id = 1 THEN MaxPages ELSE 1
HighlightPages(id) == 1..PageCount(id)

\* Math.max(1, Math.min(n, pages))
clamp(n, pages) ==
    LET least == IF n < pages THEN n ELSE pages
    IN IF least > 1 THEN least ELSE 1

OnlyViewer == UNCHANGED <<storeVars, uploadVars, cardVars, loadVars, histVars, op,
                          sortBy, filterBy, searchQuery>>

\* onDocumentLoadSuccess: the PDF of the current document has loaded.
OnDocumentLoadSuccess ==
    /\ currentDocument # NullDocument
    /\ numPages' = PageCount(currentDocument.id)
    /\ UNCHANGED pageNumber
    /\ OnlyViewer

\* changePage(offset), from the previous / next button when it is enabled.
ChangePage(offset) ==
    /\ currentDocument # NullDocument
    /\ offset = -1 => ~(pageNumber <= 1)
    /\ offset = 1 => ~(pageNumber >= numPages)
    /\ pageNumber' = clamp(pageNumber + offset, numPages)
    /\ UNCHANGED numPages
    /\ OnlyViewer

\* onClick of a highlight of the current document: setPageNumber(highlight.pageNumber)
HighlightClick(page) ==
    /\ currentDocument # NullDocument
    /\ page \in HighlightPages(currentDocument.id)
    /\ pageNumber' = page
    /\ UNCHANGED numPages
    /\ OnlyViewer

ViewerNext ==
    \/ \E document \in Documents : SetCurrentDocument(document)
    \/ OnDocumentLoadSuccess
    \/ \E offset \in {-1, 1} : ChangePage(offset)
    \/ \E page \in 1..MaxPages : HighlightClick(page)

ViewerSpec == Init /\ [][ViewerNext]_vars

\* C28: once numPages >= 1 is known, 1 <= pageNumber <= numPages, whatever
\* page changes, highlight clicks and loads of other documents happen; with
\* numPages = 0 changePage leaves the page number at 1.
C28_PageNumberInRange ==
    /\ [](numPages >= 1 => (1 <= pageNumber /\ pageNumber <= numPages))
    /\ [][\A offset \in {-1, 1} :
             (numPages = 0 /\ pageNumber = 1 /\ ChangePage(offset)) => pageNumber' = 1]_vars

====
